---- MODULE Spec2Model ----
(***************************************************************************)
(* A model of server_manager.py: the supervision of one PHP child process  *)
(* through the PID file .php_server.pid, and the management of one entry   *)
(* of the hosts file.                                                      *)
(*                                                                         *)
(* Text (the PID file, the hosts file, an entry) is a sequence of          *)
(* one-character strings, so that str(), int(), strip(), `in`, startswith  *)
(* and the iteration of a file by lines are computed as Python computes    *)
(* them.                                                                   *)
(***************************************************************************)
EXTENDS Integers, Sequences, FiniteSets, TLC

(***************************************************************************)
(* Bounds of the model.                                                    *)
(***************************************************************************)
\* process identifiers the operating system hands out: 1..MaxPid
MaxPid == 2
\* how many lines the hosts file holds initially (SpecHosts)
MaxLines == 2
\* how many add/remove/is_entry calls one behaviour of SpecHosts makes
MaxOps == 2
\* how many characters the hosts file may grow to hold (SpecCli): room for
\* the entry appended twice
MaxHostsLen == 56

Pids == 1..MaxPid

(***************************************************************************)
(* Python text primitives.                                                 *)
(***************************************************************************)
\* the characters str.strip() removes
WS == {" ", "\t", "\n", "\r"}

Digit == <<"0", "1", "2", "3", "4", "5", "6", "7", "8", "9">>

DigitSet == {Digit[i] : i \in 1..10}

DigitVal(ch) == (CHOOSE i \in 1..10 : Digit[i] = ch) - 1

RECURSIVE LStrip(_)
LStrip(s) == IF s # <<>> /\ Head(s) \in WS THEN LStrip(Tail(s)) ELSE s

RECURSIVE RStrip(_)
RStrip(s) ==
    IF s # <<>> /\ s[Len(s)] \in WS THEN RStrip(SubSeq(s, 1, Len(s) - 1)) ELSE s

\* str.strip()
strip(s) == RStrip(LStrip(s))

\* str(n) of an integer: its decimal digits
RECURSIVE str(_)
str(n) ==
    IF n < 0 THEN <<"-">> \o str(-n)
    ELSE IF n < 10 THEN <<Digit[n + 1]>>
    ELSE str(n \div 10) \o <<Digit[(n % 10) + 1]>>

RECURSIVE DigitsValue(_)
DigitsValue(s) ==
    IF s = <<>> THEN 0
    ELSE 10 * DigitsValue(SubSeq(s, 1, Len(s) - 1)) + DigitVal(s[Len(s)])

\* the leading digits of a text (used by the mutant of int)
RECURSIVE LeadingDigits(_)
LeadingDigits(s) ==
    IF s # <<>> /\ Head(s) \in DigitSet
    THEN <<Head(s)>> \o LeadingDigits(Tail(s))
    ELSE <<>>

\* a mutant of int: it accepts a text that starts with digits (as C's atoi does)
int_lenient(s) ==
    LET d == LeadingDigits(strip(s))
    IN  IF d # <<>> THEN [ok |-> TRUE, val |-> DigitsValue(d)]
        ELSE [ok |-> FALSE, val |-> 0]

\* int(f.read().strip()): ok = FALSE stands for ValueError
int(s) ==
    LET t == strip(s)
        signed == t # <<>> /\ Head(t) \in {"+", "-"}
        d == IF signed THEN Tail(t) ELSE t
    IN  IF d # <<>> /\ \A i \in 1..Len(d) : d[i] \in DigitSet
        THEN [ok |-> TRUE,
              val |-> IF signed /\ Head(t) = "-" THEN 0 - DigitsValue(d)
                      ELSE DigitsValue(d)]
        ELSE [ok |-> FALSE, val |-> 0]

\* `sub in s` of two texts
Contains(sub, s) ==
    \E i \in 0..(Len(s) - Len(sub)) : SubSeq(s, i + 1, i + Len(sub)) = sub

\* s.startswith(p)
startswith(s, p) == Len(s) >= Len(p) /\ SubSeq(s, 1, Len(p)) = p

\* the place of the first "\n" of s, 0 when it has none
RECURSIVE FirstNewline(_, _)
FirstNewline(s, i) ==
    IF i > Len(s) THEN 0 ELSE IF s[i] = "\n" THEN i ELSE FirstNewline(s, i + 1)

\* `for line in f` and f.readlines(): each line keeps its "\n"
RECURSIVE SplitLines(_)
SplitLines(s) ==
    IF s = <<>> THEN <<>>
    ELSE LET k == FirstNewline(s, 1)
         IN  IF k = 0 THEN <<s>>
             ELSE <<SubSeq(s, 1, k)>> \o SplitLines(SubSeq(s, k + 1, Len(s)))

\* the concatenation of a sequence of texts (what successive f.write make)
RECURSIVE Concat(_)
Concat(ls) == IF ls = <<>> THEN <<>> ELSE Head(ls) \o Concat(Tail(ls))

(***************************************************************************)
(* The hosts file: pure functions of the file's content and of the         *)
(* outcomes of the input/output calls they make.                           *)
(***************************************************************************)
\* HOSTS_ENTRY = "127.0.0.1 albert.apple.com"
HOSTS_ENTRY ==
    <<"1", "2", "7", ".", "0", ".", "0", ".", "1", " ",
      "a", "l", "b", "e", "r", "t", ".", "a", "p", "p", "l", "e", ".", "c", "o", "m">>

Systems == {"linux", "sunos"}

\* get_hosts_file_path() is not None
get_hosts_file_path(sys) == sys \in {"windows", "linux", "darwin"}

\* a mutant of ActiveMatch: a commented-out line counts
ActiveMatch_nocomment(entry, line) == Contains(entry, line)

\* the test of lines 49 and 148:
\* entry in line and not line.strip().startswith("#")
ActiveMatch(entry, line) ==
    Contains(entry, line) /\ ~startswith(strip(line), <<"#">>)

\* the loop of lines 47-50 over a file that was read
HasActive(entry, content) ==
    LET lines == SplitLines(content)
    IN  \E i \in 1..Len(lines) : ActiveMatch(entry, lines[i])

\* is_entry_in_hosts: readOk = FALSE stands for FileNotFoundError or any other
\* exception of open or of the iteration (lines 51-56)
is_entry_in_hosts(entry, sys, readOk, content) ==
    /\ get_hosts_file_path(sys)
    /\ readOk
    /\ HasActive(entry, content)

\* a mutant of AppendText: the leading line break is forgotten
AppendText_nolead(entry) == entry \o <<"\n">>

\* f"\n{entry_to_add}\n" of line 117
AppendText(entry) == <<"\n">> \o entry \o <<"\n">>

\* the outcomes of the input/output calls of one add_to_hosts or
\* remove_from_hosts call:
\*   read   the read of is_entry_in_hosts succeeds
\*   read2  f.readlines() of line 144 succeeds
\*   write  "ok", "open_fail" (open for writing raises, the file is untouched)
\*          or "write_fail" (open(.., "w") truncated the file and a later
\*          f.write raised after `k` lines were written)
\* A call that is not reached has the outcome of a call that succeeded.
\* add_to_hosts reads (line 112) and appends (lines 116-117)
AddIO ==
    [read : BOOLEAN, read2 : {TRUE}, write : {"ok", "open_fail"}, k : {0}]

\* remove_from_hosts reads (line 139), reads again (lines 143-144) when the
\* entry was found, and writes (lines 145-152) when that read succeeded
RemoveIO ==
    {io \in [read : BOOLEAN, read2 : BOOLEAN,
             write : {"ok", "open_fail", "write_fail"}, k : 0..1] :
        /\ ~io.read => io.read2
        /\ ~(io.read /\ io.read2) => io.write = "ok"
        /\ io.write # "write_fail" => io.k = 0}

HostsIO == AddIO \cup RemoveIO

\* add_to_hosts (lines 107-132): the value returned and the file left behind
add_to_hosts(entry, sys, io, content) ==
    IF ~get_hosts_file_path(sys) THEN [ret |-> FALSE, content |-> content]
    ELSE IF is_entry_in_hosts(entry, sys, io.read, content)
    THEN [ret |-> TRUE, content |-> content]
    ELSE IF io.write = "ok"
    THEN [ret |-> TRUE, content |-> content \o AppendText(entry)]
    ELSE [ret |-> FALSE, content |-> content]

\* the lines the loop of lines 147-152 writes back
RECURSIVE Kept(_, _)
Kept(entry, lines) ==
    IF lines = <<>> THEN <<>>
    ELSE IF ActiveMatch(entry, Head(lines)) THEN Kept(entry, Tail(lines))
    ELSE <<Head(lines)>> \o Kept(entry, Tail(lines))

Min(a, b) == IF a < b THEN a ELSE b

\* remove_from_hosts (lines 134-172)
remove_from_hosts(entry, sys, io, content) ==
    IF ~get_hosts_file_path(sys) THEN [ret |-> FALSE, content |-> content]
    ELSE IF ~is_entry_in_hosts(entry, sys, io.read, content)
    THEN [ret |-> TRUE, content |-> content]
    ELSE IF ~io.read2 \/ io.write = "open_fail"
    THEN [ret |-> FALSE, content |-> content]
    ELSE LET kept == Kept(entry, SplitLines(content))
         IN  IF io.write = "ok" \/ kept = <<>>  \* no line, no f.write to raise
             THEN [ret |-> TRUE, content |-> Concat(kept)]
             ELSE [ret |-> FALSE,
                   content |-> Concat(SubSeq(kept, 1, Min(io.k, Len(kept))))]

(***************************************************************************)
(* The state: the PID file, the operating system's processes, the hosts    *)
(* file, and the two commands of the command line (each a run of the       *)
(* script: "start" is the start command, "stop" the stop command).         *)
(***************************************************************************)
VARIABLES
    pidFile,      \* PHP_SERVER_PID_FILE: [exists, text]
    procs,        \* the process behind each identifier
    hosts,        \* the content of the hosts file
    system,       \* platform.system().lower()
    pc,           \* where each command is
    no_hosts,     \* args.no_hosts of each command
    php_process,  \* the Popen handle of the start command: its pid, 0 for None
    reaped,       \* the handle has seen the child's exit (returncode is set)
    interrupted,  \* the start command got KeyboardInterrupt in its wait loop
    had_entry,    \* is_entry_in_hosts() was true when the start command began
    scall,        \* what the stop_php_server call each command is in has done
    hcall,        \* the last call of a hosts function (SpecHosts)
    hprev,        \* the call before it (SpecHosts)
    nops,         \* how many hosts functions were called (SpecHosts)
    ev            \* the step just taken

vars ==
    <<pidFile, procs, hosts, system, pc, no_hosts, php_process, reaped,
      interrupted, had_entry, scall, hcall, hprev, nops, ev>>

supervisorVars ==
    <<pidFile, procs, pc, no_hosts, php_process, reaped, interrupted,
      had_entry, scall>>

hostsCallVars == <<hcall, hprev, nops>>

Cmds == {"start", "stop"}

NoFile == [exists |-> FALSE, text |-> <<>>]

File(text) == [exists |-> TRUE, text |-> text]

\* what an operator may have left in the PID file besides an identifier the
\* tool wrote: garbage, an identifier with white space around it, nothing
EditedTexts ==
    {<<"1", "x">>, <<" ", "1", "\n">>}

\* a stop_php_server call: pid is the identifier read from the PID file,
\* state0 what that identifier named when the call began, log the signals sent
\* with their outcomes, path the way the call took, io the outcome of the read
\* of the PID file, rm the outcome of os.remove, ret the value returned
NoStopCall ==
    [pid |-> 0, state0 |-> "free", log |-> <<>>, path |-> "none", io |-> "ok",
     rm |-> "none", ret |-> FALSE]

\* a call of a hosts function: the file before it, whether the read of
\* is_entry_in_hosts succeeded, the value it returned
NoHostsCall ==
    [op |-> "none", entry |-> <<>>, before |-> <<>>, read |-> TRUE, ret |-> FALSE]

NoHostsPrev == [op |-> "none", entry |-> <<>>, ret |-> FALSE]

\* the step just taken: a step that no property looks at is Other
Other ==
    [op |-> "other", who |-> "none", pid |-> 0, write |-> "none", over |-> FALSE,
     nh |-> FALSE, activator |-> TRUE, call |-> NoStopCall]

InitSupervisor ==
    /\ pidFile = NoFile
    /\ procs = [p \in Pids |-> "free"]
    /\ pc = [c \in Cmds |-> "idle"]
    /\ no_hosts = [c \in Cmds |-> FALSE]
    /\ php_process = 0
    /\ reaped = FALSE
    /\ interrupted = FALSE
    /\ had_entry = FALSE
    /\ scall = [c \in Cmds |-> NoStopCall]

\* Spec is about the supervision of the child: the hosts functions are
\* checked under SpecHosts. The behaviours of Spec run on a platform whose hosts
\* file the script does not know (get_hosts_file_path() is None), so that the
\* hosts steps of the commands are taken and leave the file as it is.
Init ==
    /\ InitSupervisor
    /\ hosts = <<>>
    /\ system = "sunos"
    /\ hcall = NoHostsCall
    /\ hprev = NoHostsPrev
    /\ nops = 0
    /\ ev = Other

(***************************************************************************)
(* The operating system.                                                   *)
(***************************************************************************)
\* the start command holds an unreaped handle on process p
ParentHolds(p) == php_process = p /\ ~reaped

\* what becomes of process p when it ends
Dead(p) == IF ParentHolds(p) THEN "zombie" ELSE "free"

\* os.kill(pid, sig): ProcessLookupError ("ESRCH") when no process has the
\* identifier; otherwise the signal is sent ("OK") or refused
\* (PermissionError, "EPERM")
KillResults(pid) ==
    IF pid \in Pids /\ procs[pid] # "free" THEN {"OK", "EPERM"} ELSE {"ESRCH"}

\* the process table after a signal that was sent to pid: SIGKILL ends the
\* process, SIGTERM ends it when `dies` (it may be slow to end, or ignore it)
Signalled(pr, pid, dies) ==
    IF dies /\ pr[pid] \in {"running", "foreign"}
    THEN [pr EXCEPT ![pid] = IF pr[pid] = "running" THEN Dead(pid) ELSE "free"]
    ELSE pr

\* a child launched by the tool ends by itself (or from a signal it got)
ChildExit(p) ==
    /\ procs[p] = "running"
    /\ procs' = [procs EXCEPT ![p] = Dead(p)]
    /\ ev' = Other
    /\ UNCHANGED <<pidFile, hosts, system, pc, no_hosts, php_process, reaped,
                   interrupted, scall, hostsCallVars, had_entry>>

\* the operating system gives a free identifier to an unrelated process
ForeignSpawn(p) ==
    /\ procs[p] = "free"
    /\ procs' = [procs EXCEPT ![p] = "foreign"]
    /\ ev' = Other
    /\ UNCHANGED <<pidFile, hosts, system, pc, no_hosts, php_process, reaped,
                   interrupted, scall, hostsCallVars, had_entry>>

ForeignExit(p) ==
    /\ procs[p] = "foreign"
    /\ procs' = [procs EXCEPT ![p] = "free"]
    /\ ev' = Other
    /\ UNCHANGED <<pidFile, hosts, system, pc, no_hosts, php_process, reaped,
                   interrupted, scall, hostsCallVars, had_entry>>

\* the operator edits or deletes the PID file between two commands
ExternalMarkerEdit ==
    /\ \A c \in Cmds : pc[c] = "idle"
    /\ \E f \in {NoFile} \cup {File(t) : t \in EditedTexts} :
           /\ f # pidFile
           /\ pidFile' = f
    /\ ev' = Other
    /\ UNCHANGED <<procs, hosts, system, pc, no_hosts, php_process, reaped,
                   interrupted, scall, hostsCallVars, had_entry>>

(***************************************************************************)
(* start_php_server and stop_php_server.                                   *)
(***************************************************************************)
\* a mutant of WritePidFile: the file is opened for appending
WritePidFile_append(old, text, w) ==
    IF w = "ok" THEN File(old.text \o text)
    ELSE IF w = "open_fail" THEN old
    ELSE File(<<>>)

\* lines 225-231: open(PHP_SERVER_PID_FILE, "w") and f.write(text).
\* w: "ok"; "open_fail", open raises and the file is as it was; "write_fail",
\* open truncated the file and the write raised
WritePidFile(old, text, w) ==
    IF w = "ok" THEN File(text)
    ELSE IF w = "open_fail" THEN old
    ELSE File(<<>>)

\* a mutant of start_php_server: activator.php is not looked for
start_php_server_nocheck(activator, popen, p, w) ==
    IF ~popen
    THEN [process |-> 0, pidFile |-> pidFile, procs |-> procs, write |-> "none"]
    ELSE [process |-> p,
          pidFile |-> WritePidFile(pidFile, str(p), w),
          procs |-> [procs EXCEPT ![p] = "running"],
          write |-> w]

\* start_php_server (lines 177-240): activator says activator.php exists, popen
\* that subprocess.Popen succeeds and gives the child identifier p, w is the
\* outcome of the write of the PID file. process = 0 stands for None.
start_php_server(activator, popen, p, w) ==
    IF ~activator \/ ~popen
    THEN [process |-> 0, pidFile |-> pidFile, procs |-> procs, write |-> "none"]
    ELSE [process |-> p,
          pidFile |-> WritePidFile(pidFile, str(p), w),
          procs |-> [procs EXCEPT ![p] = "running"],
          write |-> w]

\* stop_php_server returns ret to command c, which goes on to
\* manage_hosts_remove_interactive (lines 373 and 389)
Return(c, rec) ==
    /\ scall' = [scall EXCEPT ![c] = NoStopCall]
    /\ pc' = [pc EXCEPT ![c] = "hosts"]
    /\ ev' = [Other EXCEPT !.op = "stop_return", !.who = c, !.pid = rec.pid,
                           !.call = rec]

\* lines 284-289: os.remove(PHP_SERVER_PID_FILE); rmOk = FALSE stands for OSError
Removed(rmOk) == IF pidFile.exists /\ rmOk THEN NoFile ELSE pidFile

RmOutcome(rmOk) == IF pidFile.exists /\ rmOk THEN "deleted" ELSE "failed"

\* a mutant of StillAlive: the probe always finds the process alive
StillAlive_always(r) == TRUE

\* a mutant of StillAlive: the probe never finds the process alive
StillAlive_never(r) == FALSE

\* lines 267-268: os.kill(pid, 0) raised nothing, the process is still alive
StillAlive(r) == r = "OK"

\* lines 279-282: os.kill(pid, SIGTERM) raised something else than
\* ProcessLookupError
GracefulFailed(r) == r \notin {"OK", "ESRCH"}

\* stop_php_server, lines 242-263: up to the sleep of two seconds
stop_php_server_begin(c) ==
    /\ pc[c] = "stop_call"
    /\ LET call == NoStopCall
       IN
       \/ \* lines 244-249: no PID file
          /\ ~pidFile.exists
          /\ Return(c, [call EXCEPT !.path = "no_marker", !.ret = FALSE])
          /\ UNCHANGED <<pidFile, procs>>
       \/ \* lines 251-256: the PID file cannot be read or parsed
          /\ pidFile.exists
          /\ \E readOk \in BOOLEAN :
                 /\ ~readOk \/ ~int(pidFile.text).ok
                 /\ Return(c, [call EXCEPT !.path = "corrupt", !.ret = FALSE,
                                           !.io = IF readOk THEN "ok"
                                                  ELSE "read_fail"])
          /\ UNCHANGED <<pidFile, procs>>
       \/ \* lines 259-263 and 276-290: the graceful signal
          /\ pidFile.exists
          /\ int(pidFile.text).ok
          /\ LET pid == int(pidFile.text).val
             IN  \E r \in KillResults(pid), dies \in BOOLEAN, rmOk \in BOOLEAN :
                     LET sent == [call EXCEPT
                                     !.pid = pid,
                                     !.state0 = IF pid \in Pids THEN procs[pid]
                                                ELSE "free",
                                     !.log = <<[sig |-> "SIGTERM", res |-> r]>>]
                     IN
                     IF r = "OK"
                     THEN /\ procs' = Signalled(procs, pid, dies)
                          /\ scall' = [scall EXCEPT ![c] = [sent EXCEPT !.path = "sleep"]]
                          /\ pc' = [pc EXCEPT ![c] = "stop_sleep"]
                          /\ ev' = Other
                          /\ UNCHANGED pidFile
                     ELSE IF GracefulFailed(r)
                     THEN /\ ~dies /\ ~rmOk
                          /\ Return(c, [sent EXCEPT !.path = "error", !.ret = FALSE])
                          /\ UNCHANGED <<pidFile, procs>>
                     ELSE /\ ~dies
                          /\ pidFile' = Removed(rmOk)
                          /\ Return(c, [sent EXCEPT !.path = "gone", !.ret = TRUE,
                                                    !.rm = RmOutcome(rmOk)])
                          /\ UNCHANGED procs
    /\ UNCHANGED <<hosts, system, no_hosts, php_process, reaped, interrupted, hostsCallVars, had_entry>>

\* stop_php_server, lines 265-290: after the sleep
stop_php_server_finish(c) ==
    /\ pc[c] = "stop_sleep"
    /\ LET pid == scall[c].pid
       IN  \E r0 \in KillResults(pid), r1 \in KillResults(pid), rmOk \in BOOLEAN :
               LET probe == [sig |-> "0", res |-> r0]
                   kill == [sig |-> "SIGKILL", res |-> r1]
               IN
               /\ IF StillAlive(r0)
                  THEN \* lines 269-271; an OSError of SIGKILL is caught at line 272
                       /\ procs' = IF r1 = "OK" THEN Signalled(procs, pid, TRUE)
                                   ELSE procs
                       /\ Return(c, [scall[c] EXCEPT
                                        !.log = @ \o <<probe, kill>>,
                                        !.path = "forced", !.ret = TRUE,
                                        !.rm = RmOutcome(rmOk)])
                  ELSE \* lines 272-273: any OSError of the probe
                       /\ r1 = r0
                       /\ procs' = procs
                       /\ Return(c, [scall[c] EXCEPT
                                        !.log = @ \o <<probe>>,
                                        !.path = "terminated", !.ret = TRUE,
                                        !.rm = RmOutcome(rmOk)])
               /\ pidFile' = Removed(rmOk)
    /\ UNCHANGED <<hosts, system, no_hosts, php_process, reaped, interrupted, hostsCallVars, had_entry>>

(***************************************************************************)
(* The command line (lines 294-393).                                       *)
(***************************************************************************)
\* manage_hosts_add_interactive (lines 315-329): read1 is the outcome of the
\* read of line 319, choice the operator's answer, io the outcomes inside
\* add_to_hosts. exit stands for sys.exit(1).
manage_hosts_add_interactive(skip_hosts_mod, read1, choice, io, content) ==
    IF skip_hosts_mod THEN [exit |-> FALSE, content |-> content]
    ELSE IF ~is_entry_in_hosts(HOSTS_ENTRY, system, read1, content) /\ choice
    THEN LET r == add_to_hosts(HOSTS_ENTRY, system, io, content)
         IN  [exit |-> ~r.ret, content |-> r.content]
    ELSE [exit |-> FALSE, content |-> content]

\* a mutant of manage_hosts_remove_interactive: --no-hosts is not looked at
manage_hosts_remove_interactive_noskip(skip_hosts_mod, read1, choice, io, content) ==
    IF is_entry_in_hosts(HOSTS_ENTRY, system, read1, content) /\ choice
    THEN remove_from_hosts(HOSTS_ENTRY, system, io, content).content
    ELSE content

\* manage_hosts_remove_interactive (lines 331-344): the file it leaves
manage_hosts_remove_interactive(skip_hosts_mod, read1, choice, io, content) ==
    IF skip_hosts_mod THEN content
    ELSE IF is_entry_in_hosts(HOSTS_ENTRY, system, read1, content) /\ choice
    THEN remove_from_hosts(HOSTS_ENTRY, system, io, content).content
    ELSE content

\* lines 375-381: the hosts file after a start that failed
FailedStartCleanup(skip_hosts_mod, read1, io, content) ==
    IF ~skip_hosts_mod /\ is_entry_in_hosts(HOSTS_ENTRY, system, read1, content)
    THEN remove_from_hosts(HOSTS_ENTRY, system, io, content).content
    ELSE content

\* lines 347-350: check_php_installed() fails and the start command exits
MainNoPhp ==
    /\ pc["start"] = "idle"
    /\ interrupted' = FALSE
    /\ ev' = Other
    /\ UNCHANGED <<pidFile, procs, hosts, system, pc, no_hosts, php_process,
                   reaped, scall, hostsCallVars, had_entry>>

\* the outcomes of the input/output of a call of add_to_hosts or
\* remove_from_hosts that the command makes only when `reached`
IOFor(reached, ios) ==
    IF reached THEN ios
    ELSE {[read |-> TRUE, read2 |-> TRUE, write |-> "ok", k |-> 0]}

\* the answers and read outcomes likewise: what is not asked counts as "y"
Answers(skip_hosts_mod) == IF skip_hosts_mod THEN {TRUE} ELSE BOOLEAN

\* lines 347-352: the start command up to the launch
MainHostsAdd ==
    /\ pc["start"] = "idle"
    /\ interrupted' = FALSE
    /\ \E nh \in BOOLEAN :
       \E read1 \in Answers(nh), choice \in Answers(nh) :
       \E io \in IOFor(~nh /\ choice, AddIO) :
           LET r == manage_hosts_add_interactive(nh, read1, choice, io, hosts)
           IN  /\ hosts' = r.content
               /\ IF r.exit
                  THEN UNCHANGED <<pc, no_hosts, had_entry>>
                  ELSE /\ pc' = [pc EXCEPT !["start"] = "launch"]
                       /\ no_hosts' = [no_hosts EXCEPT !["start"] = nh]
                       /\ had_entry' = is_entry_in_hosts(HOSTS_ENTRY, system, TRUE, hosts)
    /\ ev' = Other
    /\ UNCHANGED <<pidFile, procs, system, php_process, reaped, scall,
                   hostsCallVars>>

\* lines 354-360: start_php_server launches the child and the start command
\* enters its wait loop
MainLaunch ==
    /\ pc["start"] = "launch"
    /\ \E activator \in BOOLEAN, p \in Pids, w \in {"ok", "open_fail", "write_fail"} :
           LET r == start_php_server(activator, TRUE, p, w)
           IN  /\ procs[p] = "free"
               /\ r.process # 0
               /\ pidFile' = r.pidFile
               /\ procs' = r.procs
               /\ php_process' = r.process
               /\ reaped' = FALSE
               /\ ev' = [Other EXCEPT !.op = "launch", !.who = "start",
                                      !.activator = activator,
                                      !.pid = r.process, !.write = r.write,
                                      !.over = pidFile.exists
                                               /\ pidFile.text \notin {<<>>, str(p)}]
    /\ pc' = [pc EXCEPT !["start"] = "wait"]
    /\ UNCHANGED <<hosts, system, no_hosts, interrupted, scall, hostsCallVars, had_entry>>

\* lines 354 and 375-381: start_php_server returns None (activator.php is
\* missing, or Popen raises) and the start command exits
MainLaunchFailed ==
    /\ pc["start"] = "launch"
    /\ \E activator \in BOOLEAN, popen \in BOOLEAN, p \in Pids,
          read1 \in Answers(no_hosts["start"]) :
       \E io \in IOFor(~no_hosts["start"] /\ read1, RemoveIO) :
           LET r == start_php_server(activator, popen, p, "ok")
           IN  /\ r.process = 0
               /\ pidFile' = r.pidFile
               /\ procs' = r.procs
               /\ hosts' = FailedStartCleanup(no_hosts["start"], read1, io, hosts)
               /\ ev' = [Other EXCEPT !.op = "launch_failed", !.who = "start",
                                      !.activator = activator,
                                      !.nh = no_hosts["start"]]
    /\ pc' = [pc EXCEPT !["start"] = "idle"]
    /\ no_hosts' = [no_hosts EXCEPT !["start"] = FALSE]
    /\ had_entry' = FALSE
    /\ UNCHANGED <<system, php_process, reaped, interrupted, scall, hostsCallVars>>

\* a mutant of PollIsNone: the poll never sees the child's exit
PollIsNone_always == TRUE

\* php_process.poll() is None
PollIsNone == ~reaped /\ procs[php_process] = "running"

\* lines 364-366: a poll of the wait loop finds that the child has ended
MainPoll ==
    /\ pc["start"] = "wait"
    /\ ~PollIsNone
    /\ procs' = [procs EXCEPT ![php_process] = "free"]
    /\ reaped' = TRUE
    /\ pc' = [pc EXCEPT !["start"] = "finally"]
    /\ ev' = Other
    /\ UNCHANGED <<pidFile, hosts, system, no_hosts, php_process, interrupted, scall, hostsCallVars, had_entry>>

\* lines 367-368: Ctrl+C while the start command waits
KeyboardInterrupt ==
    /\ pc["start"] = "wait"
    /\ interrupted' = TRUE
    /\ pc' = [pc EXCEPT !["start"] = "finally"]
    /\ ev' = Other
    /\ UNCHANGED <<pidFile, procs, hosts, system, no_hosts, php_process, reaped, scall, hostsCallVars, had_entry>>

\* lines 369-372: the finally block calls stop_php_server when the child is
\* still running
MainFinally ==
    /\ pc["start"] = "finally"
    /\ IF PollIsNone
       THEN /\ pc' = [pc EXCEPT !["start"] = "stop_call"]
            /\ UNCHANGED <<procs, reaped>>
       ELSE /\ pc' = [pc EXCEPT !["start"] = "hosts"]
            /\ reaped' = TRUE
            /\ procs' = IF reaped THEN procs
                        ELSE [procs EXCEPT ![php_process] = "free"]
    /\ ev' = Other
    /\ UNCHANGED <<pidFile, hosts, system, no_hosts, php_process, interrupted, scall, hostsCallVars, had_entry>>

\* lines 383-385: the stop command calls stop_php_server
CmdStop ==
    /\ pc["stop"] = "idle"
    /\ \E nh \in BOOLEAN : no_hosts' = [no_hosts EXCEPT !["stop"] = nh]
    /\ pc' = [pc EXCEPT !["stop"] = "stop_call"]
    /\ ev' = Other
    /\ UNCHANGED <<pidFile, procs, hosts, system, php_process, reaped, interrupted, scall, hostsCallVars, had_entry>>

\* lines 373-374 and 389-390: manage_hosts_remove_interactive, and the command
\* ends. When the start command ends, its child, if it still runs, runs on
\* without a parent, and an ended child is reaped by the operating system.
ManageHostsRemove(c) ==
    /\ pc[c] = "hosts"
    /\ \E read1 \in Answers(no_hosts[c]), choice \in Answers(no_hosts[c]) :
       \E io \in IOFor(~no_hosts[c] /\ read1 /\ choice, RemoveIO) :
           hosts' = manage_hosts_remove_interactive(no_hosts[c], read1, choice, io, hosts)
    /\ pc' = [pc EXCEPT ![c] = "idle"]
    /\ no_hosts' = [no_hosts EXCEPT ![c] = FALSE]
    /\ IF c = "start"
       THEN /\ procs' = IF ~reaped /\ procs[php_process] = "zombie"
                        THEN [procs EXCEPT ![php_process] = "free"]
                        ELSE procs
            /\ php_process' = 0
            /\ reaped' = FALSE
            /\ had_entry' = FALSE
            /\ ev' = [Other EXCEPT !.op = "start_done", !.who = c, !.pid = php_process,
                                   !.nh = no_hosts[c]]
       ELSE /\ ev' = [Other EXCEPT !.op = "stop_done", !.who = c, !.nh = no_hosts[c]]
            /\ UNCHANGED <<procs, php_process, reaped, had_entry>>
    /\ UNCHANGED <<pidFile, system, interrupted, scall, hostsCallVars>>

Next ==
    \/ MainNoPhp
    \/ MainHostsAdd
    \/ MainLaunch
    \/ MainLaunchFailed
    \/ MainPoll
    \/ KeyboardInterrupt
    \/ MainFinally
    \/ CmdStop
    \/ \E c \in Cmds : stop_php_server_begin(c)
    \/ \E c \in Cmds : stop_php_server_finish(c)
    \/ \E c \in Cmds : ManageHostsRemove(c)
    \/ \E p \in Pids : ChildExit(p)
    \/ \E p \in Pids : ForeignSpawn(p)
    \/ \E p \in Pids : ForeignExit(p)
    \/ ExternalMarkerEdit

Spec == Init /\ [][Next]_vars

\* The start command goes on: its wait loop polls again after half a second
\* (line 365), the code after the loop runs, the sleep of stop_php_server ends
\* and the operator answers the question of manage_hosts_remove_interactive.
StartGoesOn ==
    /\ WF_vars(MainPoll)
    /\ WF_vars(MainFinally)
    /\ WF_vars(stop_php_server_begin("start"))
    /\ WF_vars(stop_php_server_finish("start"))
    /\ WF_vars(ManageHostsRemove("start"))

SpecLive == Init /\ [][Next]_vars /\ StartGoesOn

(***************************************************************************)
(* SpecCli: the two commands, run one after the other, on a supported      *)
(* platform, where they read and write the hosts file. No other process    *)
(* and no operator interferes.                                             *)
(***************************************************************************)
\* the hosts file is empty, holds the entry, or holds it commented out
InitCli ==
    /\ InitSupervisor
    /\ hosts \in {<<>>, HOSTS_ENTRY \o <<"\n">>, <<"#">> \o HOSTS_ENTRY \o <<"\n">>}
    /\ system = "linux"
    /\ hcall = NoHostsCall
    /\ hprev = NoHostsPrev
    /\ nops = 0
    /\ ev = Other

\* the start command is run when no stop command runs, and while the hosts
\* file has room
MainHostsAddCapped ==
    /\ pc["stop"] = "idle"
    /\ MainHostsAdd
    /\ Len(hosts') <= MaxHostsLen

\* the stop command is run when no start command runs
CmdStopAlone ==
    /\ pc["start"] = "idle"
    /\ CmdStop

NextCli ==
    \/ MainNoPhp
    \/ MainHostsAddCapped
    \/ MainLaunch
    \/ MainLaunchFailed
    \/ MainPoll
    \/ KeyboardInterrupt
    \/ MainFinally
    \/ CmdStopAlone
    \/ \E c \in Cmds : stop_php_server_begin(c)
    \/ \E c \in Cmds : stop_php_server_finish(c)
    \/ \E c \in Cmds : ManageHostsRemove(c)
    \/ \E p \in Pids : ChildExit(p)

SpecCli == InitCli /\ [][NextCli]_vars

(***************************************************************************)
(* SpecHosts: the hosts functions called one after the other on a hosts    *)
(* file of a few lines.                                                    *)
(***************************************************************************)
\* another entry of the form "<ip> <hostname>"
OTHER_ENTRY == <<":", ":", "1", " ", "h">>

Entries == {HOSTS_ENTRY, OTHER_ENTRY}

\* the lines a hosts file is made of here (without their line break): the
\* entry, the entry commented out (with and without indentation), another
\* entry, an entry for a longer host name that contains HOSTS_ENTRY, a blank line
LinePool ==
    { HOSTS_ENTRY,
      <<"#", " ">> \o HOSTS_ENTRY,
      <<" ", "#">> \o HOSTS_ENTRY,
      OTHER_ENTRY,
      HOSTS_ENTRY \o <<".", "x">>,
      <<>> }

RECURSIVE Join(_)
Join(ls) ==
    IF ls = <<>> THEN <<>>
    ELSE IF Len(ls) = 1 THEN Head(ls)
    ELSE Head(ls) \o <<"\n">> \o Join(Tail(ls))

\* the files of at most MaxLines lines, the last line with or without its
\* line break
HostsFiles ==
    UNION { { Join(ls), Join(ls) \o <<"\n">> } :
            ls \in UNION { [1..n -> LinePool] : n \in 1..MaxLines } }
    \cup {<<>>}

InitHosts ==
    /\ InitSupervisor
    /\ hosts \in HostsFiles
    /\ system \in Systems
    /\ hcall = NoHostsCall
    /\ hprev = NoHostsPrev
    /\ nops = 0
    /\ ev = Other

Called(op, entry, readOk, ret) ==
    /\ nops < MaxOps
    /\ nops' = nops + 1
    /\ hcall' = [op |-> op, entry |-> entry, before |-> hosts, read |-> readOk,
                 ret |-> ret]
    /\ hprev' = [op |-> hcall.op, entry |-> hcall.entry, ret |-> hcall.ret]
    /\ UNCHANGED <<supervisorVars, system, ev>>

IsEntryInHosts ==
    \E entry \in Entries, readOk \in BOOLEAN :
        /\ Called("is_entry", entry, readOk,
                  is_entry_in_hosts(entry, system, readOk, hosts))
        /\ hosts' = hosts

AddToHosts ==
    \E entry \in Entries, io \in AddIO :
        LET r == add_to_hosts(entry, system, io, hosts)
        IN  /\ Called("add", entry, io.read, r.ret)
            /\ hosts' = r.content

RemoveFromHosts ==
    \E entry \in Entries, io \in RemoveIO :
        LET r == remove_from_hosts(entry, system, io, hosts)
        IN  /\ Called("remove", entry, io.read, r.ret)
            /\ hosts' = r.content

NextHosts ==
    \/ IsEntryInHosts
    \/ AddToHosts
    \/ RemoveFromHosts

SpecHosts == InitHosts /\ [][NextHosts]_vars

(***************************************************************************)
(* Properties of stop_php_server and start_php_server, checked under Spec. *)
(* ev.call is the stop_php_server call that has just returned.             *)
(***************************************************************************)
\* some signal of the call was refused with PermissionError
Refused(call) == \E i \in 1..Len(call.log) : call.log[i].res = "EPERM"

\* the text is a decimal integer, white space around it aside
IsDecimalInteger(t) ==
    LET u == strip(t)
        body == IF u # <<>> /\ Head(u) \in {"+", "-"} THEN Tail(u) ELSE u
    IN  body # <<>> /\ \A i \in 1..Len(body) : body[i] \in DigitSet

\* the text is exactly the decimal digits of n > 0
IsDigitsOf(t, n) ==
    /\ t # <<>>
    /\ \A i \in 1..Len(t) : t[i] \in DigitSet
    /\ Head(t) # "0"
    /\ DigitsValue(t) = n

\* C1, as stated: a stop_php_server call that found in the PID file the
\* identifier of a running child and whose signals were all permitted returns
\* success, and when it returns the child is not running and the PID file does
\* not exist.
C1_StopEndsChildAndMarker ==
    (ev.op = "stop_return" /\ ev.call.state0 = "running" /\ ~Refused(ev.call))
        => /\ ev.call.ret
           /\ procs[ev.pid] # "running"
           /\ ~pidFile.exists

\* C1, amended: such a call returns success and when it returns the child is
\* not running; the PID file does not exist unless os.remove failed.
C1_StopEndsChild ==
    (ev.op = "stop_return" /\ ev.call.state0 = "running" /\ ~Refused(ev.call))
        => /\ ev.call.ret
           /\ procs[ev.pid] # "running"
           /\ pidFile.exists => ev.call.rm = "failed"

\* C1's case: the child ignored SIGTERM, was killed, and the PID file deleted
C1_Witness ==
    /\ ev.op = "stop_return"
    /\ ev.call.state0 = "running"
    /\ ev.call.path = "forced"
    /\ ~Refused(ev.call)
    /\ ev.call.rm = "deleted"
    /\ ~pidFile.exists

\* C2: stop_php_server called when the PID file is absent reports success,
\* sends no signal and leaves the PID file absent.
C2_StopWithoutMarkerIsSuccess ==
    (ev.op = "stop_return" /\ ev.call.path = "no_marker")
        => /\ ev.call.ret
           /\ ev.call.log = <<>>
           /\ ~pidFile.exists

\* C3: when a start command that was interrupted in its wait loop has
\* finished, its child is not running and no PID file is left.
C3_InterruptLeavesNothing ==
    (ev.op = "start_done" /\ interrupted)
        => /\ procs[ev.pid] # "running"
           /\ ~pidFile.exists

\* C4: whenever stop_php_server deletes the PID file, no process runs under
\* the identifier it held.
C4_DeletesOnlyOnConfirmedStop ==
    (ev.op = "stop_return" /\ ev.call.rm = "deleted" /\ ev.pid \in Pids)
        => procs[ev.pid] \notin {"running", "foreign"}

\* C5: a stop_php_server call one of whose signals was refused with an error
\* other than "no such process" reports failure and does not touch the PID file.
C5_RefusedSignalKeepsMarker ==
    (ev.op = "stop_return" /\ Refused(ev.call))
        => /\ ~ev.call.ret
           /\ ev.call.rm = "none"
           /\ pidFile.exists

\* C6: a stop_php_server call that finds a PID file whose content cannot be
\* read or is not a decimal integer returns failure, sends no signal and
\* leaves the PID file and every process as they were.
C6_CorruptMarker ==
    [][\A c \in Cmds :
          ( /\ pc[c] = "stop_call"
            /\ pc'[c] # "stop_call"
            /\ pidFile.exists
            /\ \/ ~IsDecimalInteger(pidFile.text)
               \/ ev'.call.io = "read_fail" )
          => /\ ev'.op = "stop_return"
             /\ ev'.who = c
             /\ ~ev'.call.ret
             /\ ev'.call.log = <<>>
             /\ pidFile' = pidFile
             /\ procs' = procs]_vars

\* C6's case: the PID file holds "1x" and the call has returned failure
C6_Witness ==
    /\ ev.op = "stop_return"
    /\ ev.call.path = "corrupt"
    /\ ev.call.io = "ok"
    /\ ~ev.call.ret
    /\ pidFile = File(<<"1", "x">>)

\* C7: after a start_php_server whose write of the PID file succeeded, the
\* PID file holds exactly the decimal digits of the identifier of the child
\* that this call launched, whatever the file held before.
C7_MarkerHoldsLaunchedPid ==
    (ev.op = "launch" /\ ev.write = "ok")
        => /\ procs[ev.pid] = "running"
           /\ php_process = ev.pid
           /\ pidFile.exists
           /\ IsDigitsOf(pidFile.text, ev.pid)

\* C7's case: a later start overwrites a PID file that held another text
C7_Witness ==
    /\ ev.op = "launch"
    /\ ev.write = "ok"
    /\ ev.over
    /\ pidFile = File(str(ev.pid))

(***************************************************************************)
(* Properties of the hosts functions, checked under SpecHosts. hcall is    *)
(* the call that has just returned, hprev the call before it.              *)
(***************************************************************************)
\* a line without its line break
Body(line) ==
    IF line # <<>> /\ line[Len(line)] = "\n" THEN SubSeq(line, 1, Len(line) - 1)
    ELSE line

\* the lines of a sequence that are not active lines for the entry
RECURSIVE OtherLines(_, _)
OtherLines(entry, lines) ==
    IF lines = <<>> THEN <<>>
    ELSE IF Contains(entry, Head(lines)) /\ ~startswith(strip(Head(lines)), <<"#">>)
    THEN OtherLines(entry, Tail(lines))
    ELSE <<Head(lines)>> \o OtherLines(entry, Tail(lines))

\* C8: a second add_to_hosts(E) right after an add_to_hosts(E) that succeeded
\* leaves the file as the first one left it.
C8_AddTwiceIsAddOnce ==
    ( /\ hcall.op = "add"
      /\ hprev.op = "add"
      /\ hprev.entry = hcall.entry
      /\ hprev.ret )
        => hosts = hcall.before

C10_RemoveRemoves ==
    (hcall.op = "remove" /\ hcall.ret /\ HasActive(hcall.entry, hcall.before))
        => /\ ~HasActive(hcall.entry, hosts)
           /\ SplitLines(hosts) = OtherLines(hcall.entry, SplitLines(hcall.before))

\* the line is the entry itself: a full line equal to the entry, white space
\* around it aside
StructuralMatch(entry, line) == strip(line) = entry

\* the lines of a sequence that are not the entry itself
RECURSIVE NotTheEntry(_, _)
NotTheEntry(entry, lines) ==
    IF lines = <<>> THEN <<>>
    ELSE IF StructuralMatch(entry, Head(lines)) THEN NotTheEntry(entry, Tail(lines))
    ELSE <<Head(lines)>> \o NotTheEntry(entry, Tail(lines))

\* C11: a remove_from_hosts(E) that succeeded removed only lines that are E
\* itself: every other line of the file before, an active line for another
\* host name among them, is still there, unchanged and in its order.
C11_RemoveOnlyTheEntry ==
    (hcall.op = "remove" /\ hcall.ret)
        => NotTheEntry(hcall.entry, SplitLines(hosts))
             = NotTheEntry(hcall.entry, SplitLines(hcall.before))

\* C12: add_to_hosts(E) never appends to a file that already holds an active
\* line with E, whether or not the file could be read.
C12_AddNeverDuplicates ==
    (hcall.op = "add" /\ HasActive(hcall.entry, hcall.before))
        => hosts = hcall.before

\* the entry is in the file, and only in commented-out lines
OnlyCommented(entry, content) ==
    /\ \E i \in 1..Len(SplitLines(content)) : Contains(entry, SplitLines(content)[i])
    /\ ~HasActive(entry, content)

\* what remove_from_hosts returns to its caller when it found an active line
\* and removed it
FoundAndRemoved(entry) ==
    remove_from_hosts(entry, "linux",
                      [read |-> TRUE, read2 |-> TRUE, write |-> "ok", k |-> 0],
                      entry \o <<"\n">>).ret

\* C13: a remove_from_hosts(E) on a file that holds E only in commented-out
\* lines leaves the file as it was and returns a value other than the one it
\* returns when it found and removed the entry.
C13_CommentedOnlyIsTold ==
    ( /\ hcall.op = "remove"
      /\ get_hosts_file_path(system)
      /\ OnlyCommented(hcall.entry, hcall.before) )
        => /\ hosts = hcall.before
           /\ hcall.ret # FoundAndRemoved(hcall.entry)

(***************************************************************************)
(* Properties of the commands and the hosts file, checked under SpecCli.   *)
(***************************************************************************)
\* C14: no step of a command that was given --no-hosts changes the hosts
\* file, so the file is at the command's exit what it was at its start.
C14_NoHostsNeverWrites ==
    [][\A c \in Cmds :
          ( /\ pc'[c] # pc[c]
            /\ IF pc[c] = "idle" THEN no_hosts'[c] ELSE no_hosts[c] )
          => hosts' = hosts]_vars

\* C14's case: a start command with --no-hosts was interrupted and has
\* finished on a platform whose hosts file holds the entry
C14_Witness ==
    /\ ev.op = "start_done"
    /\ ev.nh
    /\ interrupted
    /\ get_hosts_file_path(system)
    /\ HasActive(HOSTS_ENTRY, hosts)

\* C17: a start command whose launch fails leaves in the hosts file an active
\* entry that was there when the command began.
C17_FailedStartKeepsOldEntry ==
    [][( /\ pc["start"] = "launch"
         /\ pc'["start"] = "idle"
         /\ had_entry
         /\ HasActive(HOSTS_ENTRY, hosts) )
       => HasActive(HOSTS_ENTRY, hosts')]_vars

(***************************************************************************)
(* More properties of stop_php_server and start_php_server, checked under  *)
(* Spec.                                                                   *)
(***************************************************************************)
\* how many times the signal was sent in the call
TimesSent(call, sig) == Cardinality({i \in 1..Len(call.log) : call.log[i].sig = sig})

\* C15: a stop_php_server call sends SIGTERM at most once and SIGKILL at most
\* once, and SIGKILL only as its third signal, after a SIGTERM that was sent
\* and a probe, made after the sleep, that found the process alive; it sends
\* no SIGKILL when SIGTERM or the probe found no process.
C15_EscalatesOnce ==
    ev.op = "stop_return"
        => LET log == ev.call.log
           IN  /\ TimesSent(ev.call, "SIGTERM") <= 1
               /\ TimesSent(ev.call, "SIGKILL") <= 1
               /\ \A i \in 1..Len(log) :
                      log[i].sig = "SIGKILL"
                          => /\ i = 3
                             /\ log[1] = [sig |-> "SIGTERM", res |-> "OK"]
                             /\ log[2] = [sig |-> "0", res |-> "OK"]
                             /\ ev.call.path = "forced"
               /\ (\E i \in 1..Len(log) : log[i].res = "ESRCH")
                      => TimesSent(ev.call, "SIGKILL") = 0

\* C15's case: SIGTERM was sent, the probe found the process alive and
\* SIGKILL was sent
C15_Witness ==
    /\ ev.op = "stop_return"
    /\ ev.call.log = << [sig |-> "SIGTERM", res |-> "OK"],
                        [sig |-> "0", res |-> "OK"],
                        [sig |-> "SIGKILL", res |-> "OK"] >>
    /\ procs[ev.pid] # "running"

\* C18: a start_php_server that does not find activator.php returns None to
\* the start command, which exits; no process is launched and the PID file,
\* one left by an earlier start included, is as it was.
C18_MissingEntryPoint ==
    [][( /\ pc["start"] = "launch"
         /\ pc'["start"] # "launch"
         /\ ~ev'.activator )
       => /\ pc'["start"] = "idle"
          /\ ev'.op = "launch_failed"
          /\ php_process' = 0
          /\ procs' = procs
          /\ pidFile' = pidFile]_vars

\* C18's case: the start failed for want of activator.php while the PID file
\* of an earlier start, whose child still runs, is there
C18_Witness ==
    /\ ev.op = "launch_failed"
    /\ ~ev.activator
    /\ pidFile.exists
    /\ int(pidFile.text).ok
    /\ int(pidFile.text).val \in Pids
    /\ procs[int(pidFile.text).val] = "running"

\* C19, checked under SpecLive: once the child of a start command that waits
\* has exited, or the command has left its wait loop (on an interrupt or on
\* the child's exit), the command completes.
C19_WaitLoopEnds ==
    ( \/ pc["start"] = "wait" /\ procs[php_process] # "running"
      \/ pc["start"] \in {"finally", "stop_call", "stop_sleep", "hosts"} )
        ~> (pc["start"] = "idle")

\* C19's case: the child exited on its own, no interrupt came, and the start
\* command has completed
C19_Witness ==
    /\ ev.op = "start_done"
    /\ ~interrupted
    /\ procs[ev.pid] # "running"

\* C20: a stop_php_server call sends SIGTERM or SIGKILL only to a process
\* that start_php_server launched, never to another process that has the
\* identifier found in the PID file.
C20_SignalsOnlyOwnChild ==
    ( /\ ev.op = "stop_return"
      /\ \E i \in 1..Len(ev.call.log) :
             /\ ev.call.log[i].sig \in {"SIGTERM", "SIGKILL"}
             /\ ev.call.log[i].res = "OK" )
        => ev.call.state0 \in {"running", "zombie"}

(***************************************************************************)
(* More properties of the hosts functions, checked under SpecHosts.        *)
(***************************************************************************)
\* where the line that holds position i of the text begins
LineStart(content, i) ==
    CHOOSE j \in 1..i :
        /\ j = 1 \/ content[j - 1] = "\n"
        /\ \A k \in j..(i - 1) : content[k] # "\n"

\* the entry stands at some place of the text, in a line whose first
\* character after its leading white space is not "#"
PresentUncommented(entry, content) ==
    \E i \in 1..(Len(content) - Len(entry) + 1) :
        /\ SubSeq(content, i, i + Len(entry) - 1) = entry
        /\ LET start == LineStart(content, i)
           IN  ~\E j \in start..(i - 1) :
                    /\ content[j] = "#"
                    /\ \A k \in start..(j - 1) : content[k] \in WS

\* "1.2.3.4 other.host", a line break, "# 127.0.0.1 albert.apple.com"
ExampleFile ==
    <<"1", ".", "2", ".", "3", ".", "4", " ",
      "o", "t", "h", "e", "r", ".", "h", "o", "s", "t", "\n", "#", " ">>
        \o HOSTS_ENTRY

\* C16: on a platform whose hosts file is known, is_entry_in_hosts(E) is true
\* exactly when the file could be read and some line of it contains E and does
\* not begin, leading white space aside, with "#"; for the example file it is
\* false.
C16_IsEntryInHosts ==
    /\ (hcall.op = "is_entry" /\ get_hosts_file_path(system))
          => hcall.ret = (hcall.read /\ PresentUncommented(hcall.entry, hcall.before))
    /\ ~is_entry_in_hosts(HOSTS_ENTRY, "linux", TRUE, ExampleFile)
    /\ ~is_entry_in_hosts(HOSTS_ENTRY, "linux", TRUE, ExampleFile \o <<"\n">>)

\* C16's case: the file holds another entry and the entry commented out, and
\* is_entry_in_hosts has answered false
C16_Witness ==
    /\ hcall.op = "is_entry"
    /\ hcall.entry = HOSTS_ENTRY
    /\ hcall.read
    /\ get_hosts_file_path(system)
    /\ hcall.before = OTHER_ENTRY \o <<"\n", "#", " ">> \o HOSTS_ENTRY \o <<"\n">>
    /\ ~hcall.ret

\* C21: an add_to_hosts or remove_from_hosts call that returns failure leaves
\* the hosts file as it was before the call.
C21_FailureLeavesFile ==
    (hcall.op \in {"add", "remove"} /\ ~hcall.ret)
        => hosts = hcall.before

====
